---------------------------- MODULE Spec2Model ----------------------------
(***************************************************************************)
(* A model of log_analyzer.py: the line parser (LOG_PATTERN and            *)
(* parse_log_line), the multiprocessing fan-out of                         *)
(* process_log_data_parallel, the SQLite store behind setup_database,      *)
(* bulk_load_data and run_optimized_analysis, and main's pipeline.         *)
(*                                                                         *)
(* Text is a sequence of one-character strings.  A parsed record is the    *)
(* 5-tuple parse_log_line returns; Python's None is the 1-tuple None.      *)
(***************************************************************************)
EXTENDS Integers, Sequences, FiniteSets, TLC

VARIABLES
    base, suffix, result,                  \* parse_log_line: argument (base \o suffix) and return value
    tables, indexes, rows, seq,            \* the database file DB_FILE: schema, committed rows, sqlite_sequence
    conn, txRows,                          \* the connection main holds and its uncommitted inserts
    pc, file, num_cores,                   \* main's position, LOG_FILE's content, mp.cpu_count()
    taskq, busy, value, mapState, alive,   \* the mp.Pool of process_log_data_parallel and its map job
    parsed_records, top_ips,               \* main's parsed_records, run_optimized_analysis's top_ips
    err, caught, faulted,                  \* the exception that ended main, the one run_optimized_analysis caught, a worker raised
    rows0, rowsAtStart, runs, okFiles      \* history: rows at first start and at this start of main, executions, files loaded

vars == << base, suffix, result, tables, indexes, rows, seq, conn, txRows,
           pc, file, num_cores, taskq, busy, value, mapState, alive,
           parsed_records, top_ips, err, caught, faulted,
           rows0, rowsAtStart, runs, okFiles >>

(***************************************************************************)
(* Bounds of the model.                                                    *)
(***************************************************************************)
MaxSuffix == 2      \* trailing characters appended to a line given to the parser
MaxLines == 2       \* lines of a log file taken line by line from the catalogue
MaxCycle == 5       \* lines of a log file written in generate_sample_log's cyclic manner
MaxCores == 2       \* worker processes of the pool
MaxRuns == 2        \* executions of main against the same database file
NumHot == 2         \* addresses of a batch that may occur more than once
MaxCount == 2       \* occurrences of such an address

(***************************************************************************)
(* Characters and the classes LOG_PATTERN uses.                            *)
(***************************************************************************)
Digits == <<"0", "1", "2", "3", "4", "5", "6", "7", "8", "9">>

IsDigit(c) == \E d \in 1..10 : Digits[d] = c

DigitVal(c) == (CHOOSE d \in 1..10 : Digits[d] = c) - 1

IsSpace(c) == c \in {" ", "\t", "\n", "\r", "\f"}

InClass(cls, c) ==
    CASE cls = "S"   -> ~IsSpace(c)
      [] cls = "d"   -> IsDigit(c)
      [] cls = "nrb" -> c # "]"

Lit(c) == [kind |-> "lit", ch |-> c]

Plus(cls) == [kind |-> "plus", ch |-> cls]

\* ^(\S+) \S+ \S+ \[([^\]]+)\] "(\S+) (\S+) \S+" (\d+) (\S+)$
LOG_PATTERN ==
    << Plus("S"), Lit(" "), Plus("S"), Lit(" "), Plus("S"), Lit(" "),
       Lit("["), Plus("nrb"), Lit("]"), Lit(" "),
       Lit("\""), Plus("S"), Lit(" "), Plus("S"), Lit(" "), Plus("S"), Lit("\""), Lit(" "),
       Plus("d"), Lit(" "), Plus("S") >>

\* Python's "$" without re.MULTILINE: at the end of the string \Z only.
AtEndStrict(s, i) == i = Len(s) + 1

\* Python's "$" without re.MULTILINE: at the end of the string, or just
\* before a newline that is the string's last character.
AtEnd(s, i) == i = Len(s) + 1 \/ (i = Len(s) /\ s[i] = "\n")

\* The positions j > i such that s[i..j-1] is a non-empty run of class cls.
RunEnds(cls, s, i) ==
    {j \in (i + 1)..(Len(s) + 1) : \A m \in i..(j - 1) : InClass(cls, s[m])}

\* Whether the items k.. of pat, then "$", match s from position i.
RECURSIVE MatchFrom(_, _, _, _)
MatchFrom(pat, k, s, i) ==
    IF k > Len(pat) THEN AtEnd(s, i)
    ELSE IF pat[k].kind = "lit"
         THEN i <= Len(s) /\ s[i] = pat[k].ch /\ MatchFrom(pat, k + 1, s, i + 1)
         ELSE \E j \in RunEnds(pat[k].ch, s, i) : MatchFrom(pat, k + 1, s, j)

SetMax(S) == CHOOSE x \in S : \A y \in S : y <= x

\* The text each "+" item takes in the match the backtracking engine finds:
\* a greedy item takes the longest run that lets the rest match.
RECURSIVE Capture(_, _, _, _)
Capture(pat, k, s, i) ==
    IF k > Len(pat) THEN << >>
    ELSE IF pat[k].kind = "lit" THEN Capture(pat, k + 1, s, i + 1)
         ELSE LET j == SetMax({e \in RunEnds(pat[k].ch, s, i) : MatchFrom(pat, k + 1, s, e)})
              IN  << SubSeq(s, i, j - 1) >> \o Capture(pat, k + 1, s, j)

\* int() of a run of decimal digits.
RECURSIVE IntOf(_)
IntOf(t) == IF t = << >> THEN 0 ELSE 10 * IntOf(SubSeq(t, 1, Len(t) - 1)) + DigitVal(t[Len(t)])

None == << "None" >>

parse_log_line(line) ==
    IF MatchFrom(LOG_PATTERN, 1, line, 1)
    THEN LET g == Capture(LOG_PATTERN, 1, line, 1)
         IN  << g[1], g[4], g[5], g[6], IntOf(g[8]) >>
    ELSE None

(***************************************************************************)
(* Log lines in the wire format, built field by field.                     *)
(***************************************************************************)
MkLine(ip, ts, method, url, proto, status, size) ==
    ip \o << " ", "-", " ", "-", " ", "[" >> \o ts \o << "]", " ", "\"" >> \o method
       \o << " " >> \o url \o << " " >> \o proto \o << "\"", " " >> \o status \o << " " >> \o size

\* The record the wire format assigns to a line built by MkLine.
MkRecord(ip, ts, method, url, statusValue) == << ip, ts, method, url, statusValue >>

(***************************************************************************)
(* Sample fields and lines.                                                *)
(***************************************************************************)
NL == << "\n" >>

IpA == << "a" >>

IpB == << "b" >>

IpDotted == << "1", ".", "2" >>

TsPlain == << "t" >>

TsZone == << "t", " ", "0" >>

TsBracket == << "t", "[", "x" >>

Get == << "G" >>

UrlHome == << "/" >>

Http == << "H" >>

Size == << "9" >>

\* Status texts with the integer each denotes.
StatusSamples ==
    { [text |-> << "2", "0", "0" >>, val |-> 200],
      [text |-> << "4", "0", "4" >>, val |-> 404],
      [text |-> << "0", "7" >>, val |-> 7] }

\* Lines in the wire format (no line terminator), each with the record the
\* format assigns to it.
WellFormed ==
    { [line |-> MkLine(ip, ts, Get, UrlHome, Http, st.text, Size),
       rec  |-> MkRecord(ip, ts, Get, UrlHome, st.val)] :
         ip \in {IpA, IpB, IpDotted}, ts \in {TsPlain, TsZone, TsBracket}, st \in StatusSamples }

WellFormedLines == {w.line : w \in WellFormed}

\* Lines that are not in the wire format: empty, non-numeric or negative
\* status, no brackets, no quotes, a field short, a doubled separator.
Malformed ==
    { << >>,
      MkLine(IpA, TsPlain, Get, UrlHome, Http, << "2", "x" >>, Size),
      MkLine(IpA, TsPlain, Get, UrlHome, Http, << "-", "1" >>, Size),
      IpA \o << " ", "-", " ", "-", " ", "t", " ", "\"", "G", " ", "/", " ", "H", "\"", " ", "2", " ", "9" >>,
      IpA \o << " ", "-", " ", "-", " ", "[", "t", "]", " ", "G", " ", "/", " ", "H", " ", "2", " ", "9" >>,
      IpA \o << " ", "-", " ", "[", "t", "]", " ", "\"", "G", " ", "/", " ", "H", "\"", " ", "2", " ", "9" >>,
      IpA \o << " ", " ", "-", " ", "-", " ", "[", "t", "]", " ", "\"", "G", " ", "/", " ", "H", "\"", " ", "2", " ", "9" >>,
      MkLine(IpA, TsPlain, Get, UrlHome, Http, << "2" >>, << >>) }

\* The record the wire format assigns to a line as read from a file (with
\* its line terminator), None when the line is not in the format.
WireRecord(l) ==
    IF \E w \in WellFormed : l = w.line \o NL
    THEN (CHOOSE w \in WellFormed : l = w.line \o NL).rec
    ELSE None

RECURSIVE SeqsUpTo(_, _)
SeqsUpTo(S, n) ==
    IF n = 0 THEN { << >> }
    ELSE LET shorter == SeqsUpTo(S, n - 1)
         IN  shorter \cup {Append(t, x) : t \in {u \in shorter : Len(u) = n - 1}, x \in S}

Suffixes == SeqsUpTo({" ", "\t", "\n"}, MaxSuffix)

(***************************************************************************)
(* The SQLite store: schema statements, inserts and the aggregation query. *)
(***************************************************************************)
Min(a, b) == IF a < b THEN a ELSE b

\* CREATE TABLE Log_Entries without IF NOT EXISTS: an error when it exists.
CreateTableStrict(ts) ==
    IF "Log_Entries" \in ts THEN [ok |-> FALSE, names |-> ts]
    ELSE [ok |-> TRUE, names |-> ts \cup {"Log_Entries"}]

\* CREATE TABLE IF NOT EXISTS Log_Entries (...)
CreateTable(ts) == [ok |-> TRUE, names |-> ts \cup {"Log_Entries"}]

\* CREATE INDEX IF NOT EXISTS idx_ip ON Log_Entries (IP_Address): needs the table.
CreateIndex(ts, ix) ==
    IF "Log_Entries" \in ts THEN [ok |-> TRUE, names |-> ix \cup {"idx_ip"}]
    ELSE [ok |-> FALSE, names |-> ix]

Row(id, rec) ==
    [LogID |-> id, IP_Address |-> rec[1], Timestamp |-> rec[2], Method |-> rec[3],
     URL |-> rec[4], Status_Code |-> rec[5]]

\* INSERT of each record without AUTOINCREMENT's memory: identifiers restart
\* after the rows present.
InsertRowsRestart(recs, lastId) == [j \in 1..Len(recs) |-> Row(j, recs[j])]

\* INSERT INTO Log_Entries (...) VALUES (?, ?, ?, ?, ?) for each record:
\* LogID INTEGER PRIMARY KEY AUTOINCREMENT is one more than the last ever used.
InsertRows(recs, lastId) == [j \in 1..Len(recs) |-> Row(lastId + j, recs[j])]

\* Character order of the BINARY collation, for the characters of addresses.
CharOrder == << ".", "0", "1", "2", "3", "4", "5", "6", "7", "8", "9", "a", "b", "n" >>

Ord(c) == CHOOSE i \in 1..Len(CharOrder) : CharOrder[i] = c

RECURSIVE TextLess(_, _)
TextLess(a, b) ==
    IF b = << >> THEN FALSE
    ELSE IF a = << >> THEN TRUE
    ELSE IF a[1] # b[1] THEN Ord(a[1]) < Ord(b[1])
    ELSE TextLess(Tail(a), Tail(b))

CountOf(rs, ip) == Cardinality({i \in 1..Len(rs) : rs[i].IP_Address = ip})

\* GROUP BY IP_Address with COUNT(DISTINCT IP_Address): every count is 1.
GroupByDistinct(rs) == { << rs[i].IP_Address, 1 >> : i \in 1..Len(rs) }

\* GROUP BY IP_Address with COUNT(IP_Address): one pair per distinct address.
GroupBy(rs) == { << rs[i].IP_Address, CountOf(rs, rs[i].IP_Address) >> : i \in 1..Len(rs) }

\* Whether group g comes before group h: the higher count first; among equal
\* counts the order is the engine's, taken here as ascending or descending
\* address order.
Before(g, h, tie) ==
    \/ g[2] > h[2]
    \/ g[2] = h[2] /\ (IF tie = "asc" THEN TextLess(g[1], h[1]) ELSE TextLess(h[1], g[1]))

\* ORDER BY RequestCount DESC.
RECURSIVE OrderBy(_, _)
OrderBy(G, tie) ==
    IF G = {} THEN << >>
    ELSE LET first == CHOOSE g \in G : \A h \in G \ {g} : Before(g, h, tie)
         IN  << first >> \o OrderBy(G \ {first}, tie)

TopLimit == 10

\* Distinct client addresses of a batch: one more than the query lists.
NumAddr == TopLimit + 1

\* No LIMIT clause.
NoLimit(sq) == sq

\* LIMIT 10
Limit(sq) == SubSeq(sq, 1, Min(TopLimit, Len(sq)))

\* SELECT IP_Address, COUNT(IP_Address) as RequestCount FROM Log_Entries
\* GROUP BY IP_Address ORDER BY RequestCount DESC LIMIT 10
TopQuery(rs, tie) == Limit(OrderBy(GroupBy(rs), tie))

TieOrders == {"asc", "desc"}

(***************************************************************************)
(* Log files and generate_sample_log.                                      *)
(***************************************************************************)
common_ips == << IpA, IpB >>

status_codes == << << "2", "0", "0" >>, << "2", "0", "0" >>, << "4", "0", "4" >> >>

Cyc(sq, i) == sq[(i % Len(sq)) + 1]

\* The n lines generate_sample_log writes: line i takes the i-th address and
\* status, cyclically, and ends with a newline.
SampleLog(n) ==
    [j \in 1..n |-> MkLine(Cyc(common_ips, j - 1), TsZone, Get, UrlHome, Http,
                           Cyc(status_codes, j - 1), Size) \o NL]

\* generate_sample_log: an existing file is left as it is.
generate_sample_log(f, n) == IF f.exists THEN f ELSE [exists |-> TRUE, lines |-> SampleLog(n)]

\* Lines a file found on disk is made of, as readlines returns them.
Catalogue ==
    { MkLine(IpA, TsPlain, Get, UrlHome, Http, << "2", "0", "0" >>, Size) \o NL,
      MkLine(IpB, TsZone, Get, UrlHome, Http, << "4", "0", "4" >>, Size) \o NL,
      MkLine(IpA, TsPlain, Get, UrlHome, Http, << "2", "x" >>, Size) \o NL }

Files ==
    {[exists |-> FALSE, lines |-> << >>]}
        \cup {[exists |-> TRUE, lines |-> ls] : ls \in SeqsUpTo(Catalogue, MaxLines)}

\* What the database file may hold before the first execution: nothing, the
\* table without its index, or the table and the index; a table with rows.
PriorRecord == MkRecord(IpA, TsPlain, Get, UrlHome, 200)

PriorRows == { << >>, InsertRows(<< PriorRecord >>, 0) }

Stores ==
    {[tables |-> {}, indexes |-> {}, rows |-> << >>]}
        \cup {[tables |-> {"Log_Entries"}, indexes |-> ix, rows |-> rs] :
                 ix \in {{}, {"idx_ip"}}, rs \in PriorRows}

\* Every line a log file of the model can hold, and parse_log_line's result
\* on each (the function is pure: computed once per line).
FileLines == Catalogue \cup {SampleLog(MaxCycle)[j] : j \in 1..MaxCycle}

ParseOf == [l \in FileLines |-> parse_log_line(l)]

WireOf == [l \in FileLines |-> WireRecord(l)]

(***************************************************************************)
(* mp.Pool.map: chunks, workers, the map job's result.                     *)
(***************************************************************************)
\* chunksize, extra = divmod(len(iterable), len(pool) * 4); if extra: chunksize += 1
Chunksize(n, p) == IF n % (p * 4) # 0 THEN n \div (p * 4) + 1 ELSE n \div (p * 4)

NumChunks(n, cs) == IF cs = 0 THEN 0 ELSE (n + cs - 1) \div cs

\* The slots value[i*chunksize : (i+1)*chunksize] of chunk c (c counted from 1).
ChunkRange(c, cs, n) == ((c - 1) * cs + 1)..Min(c * cs, n)

Pending == << "Pending" >>

\* MapResult._set that fills every slot of a chunk with the result of the
\* chunk's first line.
MapSetFirst(ms, val, slots, ok, outs) ==
    IF ms # "running" THEN [state |-> ms, value |-> val]
    ELSE IF ~ok THEN [state |-> "failed", value |-> val]
    ELSE LET v == [i \in DOMAIN val |->
                      IF i \in slots THEN outs[CHOOSE m \in slots : \A k \in slots : m <= k]
                      ELSE val[i]]
         IN  [state |-> IF \A i \in DOMAIN v : v[i] # Pending THEN "ready" ELSE "running",
              value |-> v]

\* MapResult._set that takes a failed chunk for a chunk of no-match results.
MapSetSwallow(ms, val, slots, ok, outs) ==
    IF ms # "running" THEN [state |-> ms, value |-> val]
    ELSE LET v == [i \in DOMAIN val |-> IF i \in slots THEN (IF ok THEN outs[i] ELSE None) ELSE val[i]]
         IN  [state |-> IF \A i \in DOMAIN v : v[i] # Pending THEN "ready" ELSE "running",
              value |-> v]

\* MapResult._set(i, (success, result)): a successful chunk fills its slots
\* and the job is ready when none is left; the first failed chunk makes the
\* job ready with the exception; a job that is ready takes nothing more.
MapSet(ms, val, slots, ok, outs) ==
    IF ms # "running" THEN [state |-> ms, value |-> val]
    ELSE IF ~ok THEN [state |-> "failed", value |-> val]
    ELSE LET v == [i \in DOMAIN val |-> IF i \in slots THEN outs[i] ELSE val[i]]
         IN  [state |-> IF \A i \in DOMAIN v : v[i] # Pending THEN "ready" ELSE "running",
              value |-> v]

\* list(filter(None, xs)): the elements that are not falsy, in order; a
\* 5-tuple is never falsy.
FilterNone(xs) ==
    LET F[i \in 0..Len(xs)] ==
            IF i = 0 THEN << >> ELSE IF xs[i] # None THEN Append(F[i - 1], xs[i]) ELSE F[i - 1]
    IN  F[Len(xs)]

Unset == [set |-> FALSE, v |-> << >>]

Val(x) == [set |-> TRUE, v |-> x]

\* Leaving "with mp.Pool(...) as pool" without terminating the workers.
PoolExitLeaves(workers) == workers

\* Leaving "with mp.Pool(...) as pool": terminate() ends and joins the workers.
PoolExit(workers) == {}

(***************************************************************************)
(* main: one action per step of the pipeline.                              *)
(***************************************************************************)
parseVars == << base, suffix, result >>

storeVars == << tables, indexes, rows, seq >>

poolVars == << taskq, busy, value, mapState, alive >>

histVars == << rows0, rowsAtStart, runs, okFiles >>

\* Step 0: generate_sample_log(num_lines), the number of lines bounded.
Generate ==
    /\ pc = "start"
    /\ file' = generate_sample_log(file, MaxCycle)
    /\ pc' = "generated"
    /\ UNCHANGED << parseVars, storeVars, conn, txRows, num_cores, poolVars,
                    parsed_records, top_ips, err, caught, faulted, histVars >>

\* Step 1: conn = setup_database()
Setup ==
    /\ pc = "generated"
    /\ conn' = "open"
    /\ LET t == CreateTable(tables)
           x == CreateIndex(t.names, indexes)
       IN  /\ tables' = t.names
           /\ indexes' = x.names
           /\ pc' = IF t.ok /\ x.ok THEN "db_ready" ELSE "crashed"
           /\ err' = IF t.ok /\ x.ok THEN err ELSE "OperationalError"
    /\ UNCHANGED << parseVars, rows, seq, txRows, file, num_cores, poolVars,
                    parsed_records, top_ips, caught, faulted, histVars >>

\* Step 2, process_log_data_parallel up to pool.map's dispatch: the file is
\* read, the pool is started and the chunks of lines are queued.
ReadAndDispatch ==
    /\ pc = "db_ready"
    /\ file.exists
    /\ LET n  == Len(file.lines)
           cs == Chunksize(n, num_cores)
       IN  /\ taskq' = [c \in 1..NumChunks(n, cs) |-> c]
           /\ value' = [i \in 1..n |-> Pending]
           /\ mapState' = IF n = 0 THEN "ready" ELSE "running"
    /\ alive' = 1..num_cores
    /\ busy' = [w \in 1..num_cores |-> 0]
    /\ pc' = "mapping"
    /\ UNCHANGED << parseVars, storeVars, conn, txRows, file, num_cores,
                    parsed_records, top_ips, err, caught, faulted, histVars >>

\* Step 2 when open() raises FileNotFoundError (the file is gone since step
\* 0): the function prints the error and returns [].
ReadNotFound ==
    /\ pc = "db_ready"
    /\ file' = [exists |-> FALSE, lines |-> << >>]
    /\ parsed_records' = Val(<< >>)
    /\ pc' = "parsed"
    /\ UNCHANGED << parseVars, storeVars, conn, txRows, num_cores, poolVars,
                    top_ips, err, caught, faulted, histVars >>

\* A worker process takes the next chunk from the task queue.
TakeTask(w) ==
    /\ pc = "mapping"
    /\ w \in alive
    /\ busy[w] = 0
    /\ taskq # << >>
    /\ busy' = [busy EXCEPT ![w] = Head(taskq)]
    /\ taskq' = Tail(taskq)
    /\ UNCHANGED << parseVars, storeVars, conn, txRows, pc, file, num_cores, value, mapState,
                    alive, parsed_records, top_ips, err, caught, faulted, histVars >>

\* The worker has applied parse_log_line to every line of its chunk and the
\* results reach the map job.
TaskDone(w) ==
    /\ pc = "mapping"
    /\ w \in alive
    /\ busy[w] # 0
    /\ LET n    == Len(file.lines)
           outs == [i \in 1..n |-> ParseOf[file.lines[i]]]
           r    == MapSet(mapState, value, ChunkRange(busy[w], Chunksize(n, num_cores), n), TRUE, outs)
       IN  /\ mapState' = r.state
           /\ value' = r.value
    /\ busy' = [busy EXCEPT ![w] = 0]
    /\ UNCHANGED << parseVars, storeVars, conn, txRows, pc, file, num_cores, taskq,
                    alive, parsed_records, top_ips, err, caught, faulted, histVars >>

\* parse_log_line raises on a line of the worker's chunk: the chunk's result
\* is the exception.
TaskRaises(w) ==
    /\ pc = "mapping"
    /\ w \in alive
    /\ busy[w] # 0
    /\ LET n == Len(file.lines)
           r == MapSet(mapState, value, ChunkRange(busy[w], Chunksize(n, num_cores), n), FALSE, << >>)
       IN  /\ mapState' = r.state
           /\ value' = r.value
    /\ busy' = [busy EXCEPT ![w] = 0]
    /\ faulted' = TRUE
    /\ UNCHANGED << parseVars, storeVars, conn, txRows, pc, file, num_cores, taskq,
                    alive, parsed_records, top_ips, err, caught, histVars >>

\* pool.map returns the results in order; they are filtered, the pool is
\* left and the function returns the list.
MapReturn ==
    /\ pc = "mapping"
    /\ mapState = "ready"
    /\ parsed_records' = Val(FilterNone(value))
    /\ alive' = PoolExit(alive)
    /\ taskq' = << >> /\ busy' = << >> /\ value' = << >>
    /\ pc' = "parsed"
    /\ UNCHANGED << parseVars, storeVars, conn, txRows, file, num_cores,
                    mapState, top_ips, err, caught, faulted, histVars >>

\* pool.map re-raises the worker's exception: the pool is left, and neither
\* process_log_data_parallel nor main handles it.
MapRaise ==
    /\ pc = "mapping"
    /\ mapState = "failed"
    /\ alive' = PoolExit(alive)
    /\ taskq' = << >> /\ busy' = << >> /\ value' = << >>
    /\ err' = "ParseFault"
    /\ pc' = "crashed"
    /\ UNCHANGED << parseVars, storeVars, conn, txRows, file, num_cores,
                    mapState, parsed_records, top_ips, caught, faulted, histVars >>

\* if not parsed_records: conn.close(); return
EarlyReturn ==
    /\ pc = "parsed"
    /\ parsed_records.v = << >>
    /\ conn' = "closed"
    /\ pc' = "returned"
    /\ UNCHANGED << parseVars, storeVars, txRows, file, num_cores, poolVars,
                    parsed_records, top_ips, err, caught, faulted, histVars >>

\* Step 3, bulk_load_data: executemany inserts every record in one implicit
\* transaction and conn.commit() makes them durable.
BulkLoadOk ==
    /\ pc = "parsed"
    /\ parsed_records.set
    /\ "Log_Entries" \in tables
    /\ rows' = rows \o InsertRows(parsed_records.v, seq)
    /\ seq' = seq + Len(parsed_records.v)
    /\ txRows' = << >>
    /\ pc' = "loaded"
    /\ UNCHANGED << parseVars, tables, indexes, conn, file, num_cores, poolVars,
                    parsed_records, top_ips, err, caught, faulted, histVars >>

\* Step 3 when the insert of record k + 1 fails (database locked, disk
\* full, a constraint): executemany raises, the k rows inserted so far stay
\* in the open transaction, commit is not reached and nothing handles the
\* exception.
BulkLoadFails ==
    /\ pc = "parsed"
    /\ parsed_records.set
    /\ \E k \in 0..(Len(parsed_records.v) - 1) :
           txRows' = InsertRows(SubSeq(parsed_records.v, 1, k), seq)
    /\ err' = "LoadError"
    /\ pc' = "crashed"
    /\ UNCHANGED << parseVars, storeVars, conn, file, num_cores, poolVars,
                    parsed_records, top_ips, caught, faulted, histVars >>

\* main reaches step 3 only with a non-empty list of records.
MainLoadOk == parsed_records.v # << >> /\ BulkLoadOk

MainLoadFails == parsed_records.v # << >> /\ BulkLoadFails

\* The rows a statement on main's connection sees: the committed ones and
\* the connection's own uncommitted ones.
Visible == rows \o txRows

\* Step 4, run_optimized_analysis: the query runs and its rows are printed.
AnalysisOk ==
    /\ pc = "loaded"
    /\ "Log_Entries" \in tables
    /\ \E tie \in TieOrders : top_ips' = Val(TopQuery(Visible, tie))
    /\ pc' = "analysed"
    /\ UNCHANGED << parseVars, storeVars, conn, txRows, file, num_cores, poolVars,
                    parsed_records, err, caught, faulted, histVars >>

\* Step 4 when cursor.execute raises sqlite3.OperationalError (no such
\* table, database locked): the handler prints the error and the function
\* returns as it does after a successful query.
AnalysisFails ==
    /\ pc = "loaded"
    /\ caught' = "OperationalError"
    /\ pc' = "analysed"
    /\ UNCHANGED << parseVars, storeVars, conn, txRows, file, num_cores, poolVars,
                    parsed_records, top_ips, err, faulted, histVars >>

\* conn.close(); print("Project execution finished successfully.")
Finish ==
    /\ pc = "analysed"
    /\ conn' = "closed"
    /\ pc' = "finished"
    /\ okFiles' = Append(okFiles, file.lines)
    /\ UNCHANGED << parseVars, storeVars, txRows, file, num_cores, poolVars,
                    parsed_records, top_ips, err, caught, faulted, rows0, rowsAtStart, runs >>

\* The process ends, by return or by the uncaught exception: its memory is
\* gone, a connection still open is dropped and its uncommitted transaction
\* is rolled back.
ProcessExit ==
    /\ pc \in {"finished", "returned", "crashed"}
    /\ conn' = "none"
    /\ txRows' = << >>
    /\ runs' = runs + 1
    /\ pc' = "exited"
    /\ parsed_records' = Unset /\ top_ips' = Unset /\ mapState' = "none" /\ caught' = "none"
    /\ UNCHANGED << parseVars, storeVars, file, num_cores, taskq, busy, value, alive,
                    err, faulted, rows0, rowsAtStart, okFiles >>

\* main is executed again, against the same database file.
Rerun ==
    /\ pc = "exited"
    /\ runs < MaxRuns
    /\ pc' = "start"
    /\ err' = "none"
    /\ faulted' = FALSE
    /\ rowsAtStart' = rows
    /\ UNCHANGED << parseVars, storeVars, conn, txRows, file, num_cores, poolVars,
                    parsed_records, top_ips, caught, rows0, runs, okFiles >>

Init ==
    /\ base = << >> /\ suffix = << >> /\ result = Pending
    /\ \E st \in Stores :
           /\ tables = st.tables /\ indexes = st.indexes /\ rows = st.rows
           /\ seq = Len(st.rows) /\ rows0 = st.rows /\ rowsAtStart = st.rows
    /\ conn = "none" /\ txRows = << >>
    /\ pc = "start"
    /\ file \in Files
    /\ num_cores \in 1..MaxCores
    /\ taskq = << >> /\ busy = << >> /\ value = << >> /\ mapState = "none" /\ alive = {}
    /\ parsed_records = Unset /\ top_ips = Unset
    /\ err = "none" /\ caught = "none" /\ faulted = FALSE
    /\ runs = 0 /\ okFiles = << >>

Next ==
    \/ Generate
    \/ Setup
    \/ ReadAndDispatch
    \/ ReadNotFound
    \/ \E w \in 1..MaxCores : TakeTask(w) \/ TaskDone(w) \/ TaskRaises(w)
    \/ MapReturn
    \/ MapRaise
    \/ EarlyReturn
    \/ MainLoadOk
    \/ MainLoadFails
    \/ AnalysisOk
    \/ AnalysisFails
    \/ Finish
    \/ ProcessExit
    \/ Rerun

Spec == Init /\ [][Next]_vars

(***************************************************************************)
(* parse_log_line applied to one line: a line of the samples followed by   *)
(* up to MaxSuffix whitespace characters.                                  *)
(***************************************************************************)
ParseCall ==
    /\ pc = "parse_call"
    /\ result' = parse_log_line(base \o suffix)
    /\ pc' = "parse_ret"
    /\ UNCHANGED << base, suffix, storeVars, conn, txRows, file, num_cores, poolVars,
                    parsed_records, top_ips, err, caught, faulted, histVars >>

NoPipeline ==
    /\ conn = "none" /\ txRows = << >>
    /\ file = [exists |-> FALSE, lines |-> << >>]
    /\ num_cores = 1
    /\ taskq = << >> /\ busy = << >> /\ value = << >> /\ mapState = "none" /\ alive = {}
    /\ top_ips = Unset
    /\ err = "none" /\ caught = "none" /\ faulted = FALSE
    /\ runs = 0 /\ okFiles = << >>

InitParse ==
    /\ base \in WellFormedLines \cup Malformed
    /\ suffix \in Suffixes
    /\ result = Pending
    /\ pc = "parse_call"
    /\ tables = {} /\ indexes = {} /\ rows = << >> /\ seq = 0
    /\ rows0 = << >> /\ rowsAtStart = << >>
    /\ parsed_records = Unset
    /\ NoPipeline

NextParse == ParseCall

SpecParse == InitParse /\ [][NextParse]_vars

(***************************************************************************)
(* bulk_load_data(conn, batch) followed by run_optimized_analysis(conn) on *)
(* a connection setup_database returned, for batches of up to NumAddr      *)
(* distinct addresses; every load succeeds.                                *)
(***************************************************************************)
Addr(a) == << "n", Digits[(a \div 10) + 1], Digits[(a % 10) + 1] >>

BatchRecord(a) == MkRecord(Addr(a), TsZone, Get, UrlHome, 200)

\* How often each address occurs in a batch: the first NumHot addresses up
\* to MaxCount times, the others at most once.
BatchCounts ==
    {c \in [1..NumAddr -> 0..MaxCount] : \A a \in 1..NumAddr : a > NumHot => c[a] <= 1}

RECURSIVE Batch(_, _)
Batch(c, a) ==
    IF a = 0 THEN << >>
    ELSE Batch(c, a - 1) \o [j \in 1..c[a] |-> BatchRecord(a)]

InitQuery ==
    /\ base = << >> /\ suffix = << >> /\ result = Pending
    /\ tables = {"Log_Entries"} /\ indexes = {"idx_ip"}
    /\ rows \in { << >>, InsertRows(<< BatchRecord(1) >>, 0) }
    /\ seq = Len(rows) /\ rows0 = rows /\ rowsAtStart = rows
    /\ \E c \in BatchCounts : parsed_records = Val(Batch(c, NumAddr))
    /\ pc = "parsed"
    /\ conn = "open" /\ txRows = << >>
    /\ file = [exists |-> FALSE, lines |-> << >>]
    /\ num_cores = 1
    /\ taskq = << >> /\ busy = << >> /\ value = << >> /\ mapState = "none" /\ alive = {}
    /\ top_ips = Unset
    /\ err = "none" /\ caught = "none" /\ faulted = FALSE
    /\ runs = 0 /\ okFiles = << >>

NextQuery == BulkLoadOk \/ AnalysisOk \/ AnalysisFails

SpecQuery == InitQuery /\ [][NextQuery]_vars

(***************************************************************************)
(* Properties.                                                             *)
(***************************************************************************)
IsPrefix(a, b) == Len(a) <= Len(b) /\ SubSeq(b, 1, Len(a)) = a

\* The indices of the lines of ls that are in the wire format.
WellFormedAt(ls) == {i \in 1..Len(ls) : WireOf[ls[i]] # None}

\* K: how many lines of ls are in the wire format.
WellFormedCount(ls) == Cardinality(WellFormedAt(ls))

Occurrences(sq, x) == Cardinality({i \in 1..Len(sq) : sq[i] = x})

RECURSIVE SumCounts(_)
SumCounts(pairs) == IF pairs = << >> THEN 0 ELSE pairs[1][2] + SumCounts(Tail(pairs))

Addresses(rs) == {rs[i].IP_Address : i \in 1..Len(rs)}

DistinctIn(recs) == Cardinality({recs[i][1] : i \in 1..Len(recs)})

\* C1: when pool.map has returned, parsed_records holds exactly K records,
\* K the number of lines of the file in the wire format, and each record
\* occurs in it as often as there are lines the wire format maps to it,
\* whatever the pool size and the order in which the workers took and
\* finished the chunks.
C1_ParallelParseComplete ==
    (pc = "parsed" /\ file.exists) =>
        LET recs == parsed_records.v
            ls   == file.lines
        IN  /\ parsed_records.set
            /\ Len(recs) = WellFormedCount(ls)
            /\ \A i \in WellFormedAt(ls) :
                   Occurrences(recs, WireOf[ls[i]])
                       = Cardinality({j \in 1..Len(ls) : WireOf[ls[j]] = WireOf[ls[i]]})
            /\ \A k \in 1..Len(recs) : \E i \in WellFormedAt(ls) : recs[k] = WireOf[ls[i]]

\* C1's case: two workers have parsed a file of several lines, some in the
\* wire format and one not, in chunks of more than one line or of one.
C1_Witness ==
    /\ pc = "parsed" /\ file.exists /\ num_cores = 2
    /\ Len(file.lines) >= 2
    /\ Len(parsed_records.v) >= 1
    /\ Len(parsed_records.v) < Len(file.lines)

\* C2: bulk_load_data is all-or-nothing: after a failed load no row of the
\* batch is visible on the connection and the table is as before the call;
\* after a successful load the whole batch is visible.
C2_BulkLoadAllOrNothing ==
    /\ (err = "LoadError" /\ pc = "crashed") => Visible = rowsAtStart
    /\ pc = "loaded" => Visible = rowsAtStart \o InsertRows(parsed_records.v, Len(rowsAtStart))

\* C3 as stated: after a load of M records and the aggregation, the counts
\* listed (by a query that did not fail) sum to M.
C3_SumEqualsLoaded ==
    (pc = "analysed" /\ caught = "none") => SumCounts(top_ips.v) = Len(parsed_records.v)

\* C3 amended: the counts a query that did not fail lists sum to the number
\* of rows of the table whose address is listed, which is at most the number
\* of rows; the sum is M when the table held no rows before the load and the
\* M records have at most TopLimit distinct addresses.
C3_SumOfListedCounts ==
    (pc = "analysed" /\ caught = "none") =>
        LET listed == {top_ips.v[k][1] : k \in 1..Len(top_ips.v)}
            total  == SumCounts(top_ips.v)
        IN  /\ top_ips.set
            /\ total = Cardinality({i \in 1..Len(rows) : rows[i].IP_Address \in listed})
            /\ total <= Len(rows)
            /\ (rowsAtStart = << >> /\ DistinctIn(parsed_records.v) <= TopLimit)
                   => total = Len(parsed_records.v)

\* C3's case: a batch of several records, some address more than once, at
\* most TopLimit addresses, loaded into an empty table and aggregated.
C3_Witness ==
    /\ pc = "analysed" /\ caught = "none" /\ rowsAtStart = << >>
    /\ DistinctIn(parsed_records.v) = TopLimit
    /\ Len(parsed_records.v) > TopLimit
    /\ SumCounts(top_ips.v) = Len(parsed_records.v)

\* C4: the aggregation, when the query does not fail, lists
\* min(TopLimit, number of distinct addresses)
\* pairs, each address once with the number of rows that have it, counts
\* non-increasing, and no address left out has more rows than a listed one;
\* for an empty table the list is empty.
C4_TopAddresses ==
    (pc = "analysed" /\ caught = "none") =>
        LET t == top_ips.v
        IN  /\ top_ips.set
            /\ Len(t) = Min(TopLimit, Cardinality(Addresses(rows)))
            /\ \A k \in 1..Len(t) : t[k][1] \in Addresses(rows) /\ t[k][2] = CountOf(rows, t[k][1])
            /\ \A k, m \in 1..Len(t) : k # m => t[k][1] # t[m][1]
            /\ \A k \in 1..(Len(t) - 1) : t[k][2] >= t[k + 1][2]
            /\ \A a \in Addresses(rows) :
                   (\A k \in 1..Len(t) : t[k][1] # a)
                       => \A k \in 1..Len(t) : CountOf(rows, a) <= t[k][2]
            /\ rows = << >> => t = << >>

\* C4's case: more than TopLimit distinct addresses with different counts.
C4_Witness ==
    /\ pc = "analysed" /\ caught = "none"
    /\ Cardinality(Addresses(rows)) > TopLimit
    /\ Len(top_ips.v) = TopLimit
    /\ top_ips.v[1][2] > top_ips.v[TopLimit][2]

\* C5: after the aggregation query has failed, main does not reach its
\* successful completion.
C5_QueryFailureAborts ==
    caught = "OperationalError" => pc # "finished"

\* C6 as stated: schema setup, bulk load and aggregation each occur only
\* after the parse phase has finished and its result is available, and no
\* worker is alive then.
C6_StorageAfterParse ==
    pc \in {"db_ready", "loaded", "analysed"} => (parsed_records.set /\ alive = {})

\* C6 amended: bulk load and aggregation occur only after the parse phase
\* has finished and its result is available; schema setup occurs before
\* the parse phase starts; workers are alive only while pool.map runs, so
\* none is alive at a storage access.
C6_LoadAndQueryAfterParse ==
    /\ pc \in {"loaded", "analysed"} => (parsed_records.set /\ alive = {})
    /\ pc = "db_ready" => (~parsed_records.set /\ alive = {} /\ mapState = "none")
    /\ alive # {} => pc = "mapping"
    /\ (err = "LoadError" /\ pc = "crashed") => (parsed_records.set /\ alive = {})

\* C6's case: the records two workers parsed have been loaded.
C6_Witness ==
    /\ pc = "loaded" /\ num_cores = 2 /\ mapState = "ready"
    /\ parsed_records.set /\ alive = {}

\* C7: setup_database raises no error from any prior state of the store,
\* once or repeatedly, leaves the table Log_Entries and the index idx_ip
\* and the rows as they were; the index exists before every bulk load.
C7_SetupIdempotent ==
    /\ err # "OperationalError"
    /\ pc = "db_ready" =>
           /\ tables = {"Log_Entries"} /\ indexes = {"idx_ip"}
           /\ Cardinality(tables) = 1 /\ Cardinality(indexes) = 1
           /\ rows = rowsAtStart /\ seq >= Len(rows)
           /\ conn = "open"
    /\ pc \in {"parsed", "loaded"} => (tables = {"Log_Entries"} /\ indexes = {"idx_ip"})

\* C7's case: setup_database has run a second time with no load between
\* the two, on a table that held rows.
C7_Witness ==
    /\ pc = "db_ready" /\ runs = 1 /\ okFiles = << >>
    /\ rows0 # << >> /\ rows = rows0

\* C8: once a worker has raised while parsing, process_log_data_parallel
\* returns no list: the exception ends main, and no bulk load and no
\* aggregation query is executed.
C8_ParseFaultHalts ==
    faulted =>
        /\ pc \in {"mapping", "crashed", "exited"}
        /\ ~parsed_records.set /\ ~top_ips.set
        /\ rows = rowsAtStart /\ txRows = << >>
        /\ pc = "crashed" => err = "ParseFault"

\* C8's case: a worker raised on a file of several lines after another
\* chunk had been parsed, and main has ended with the exception.
C8_Witness ==
    /\ faulted /\ pc = "crashed" /\ err = "ParseFault"
    /\ Len(file.lines) >= 2 /\ num_cores = 2

\* C9 as stated: the empty line, and every line in the wire format followed
\* by one or more of space, tab, newline, gives no record.
C9_TrailingWhitespaceRejected ==
    pc = "parse_ret" =>
        /\ base \o suffix = << >> => result = None
        /\ (base \in WellFormedLines /\ suffix # << >>) => result = None

\* C9 amended: the empty line gives no record; a line in the wire format
\* followed by whitespace gives no record unless the whitespace is exactly
\* one newline, and then (a line as readlines returns it) it gives the
\* record of the line without the newline.
C9_TrailingWhitespaceButOneNewline ==
    pc = "parse_ret" =>
        /\ base \o suffix = << >> => result = None
        /\ (base \in WellFormedLines /\ suffix # << >> /\ suffix # NL) => result = None
        /\ (base \in WellFormedLines /\ suffix \in {<< >>, NL})
               => result = (CHOOSE w \in WellFormed : w.line = base).rec

\* C9's case: a line in the wire format followed by a space and a newline.
C9_Witness ==
    /\ pc = "parse_ret"
    /\ base \in WellFormedLines /\ suffix = << " ", "\n" >>
    /\ result = None

\* C10: rows are only appended, LogID is strictly increasing in insertion
\* order; an execution that finishes adds exactly K > 0 rows, K the number
\* of lines of its file in the wire format, and one that returns early
\* (K = 0, or no file) leaves the rows as they were; after n executions
\* finished on the same file the table holds n*K more rows than at first
\* and n times the file's count more for each address.
C10_AppendOnlyRuns ==
    /\ IsPrefix(rows0, rows) /\ IsPrefix(rowsAtStart, rows)
    /\ \A i \in 1..(Len(rows) - 1) : rows[i].LogID < rows[i + 1].LogID
    /\ pc = "finished" =>
           /\ WellFormedCount(file.lines) > 0
           /\ Len(rows) = Len(rowsAtStart) + WellFormedCount(file.lines)
    /\ pc = "returned" =>
           /\ rows = rowsAtStart
           /\ ~file.exists \/ WellFormedCount(file.lines) = 0
    /\ (pc \notin {"loaded", "analysed"} /\ \A i \in 1..Len(okFiles) : okFiles[i] = okFiles[1]) =>
           LET n == Len(okFiles)
               f == IF n = 0 THEN << >> ELSE okFiles[1]
           IN  /\ Len(rows) = Len(rows0) + n * WellFormedCount(f)
               /\ \A ip \in {IpA, IpB} :
                      CountOf(rows, ip) = CountOf(rows0, ip)
                          + n * Cardinality({i \in WellFormedAt(f) : WireOf[f[i]][1] = ip})

\* C10's case: main has finished twice on the same file of K > 0 lines in
\* the wire format, on a table that held a row.
C10_Witness ==
    /\ pc = "finished" /\ Len(okFiles) = 2 /\ okFiles[1] = okFiles[2]
    /\ rows0 # << >>
    /\ WellFormedCount(file.lines) >= 2
    /\ Len(rows) = Len(rows0) + 2 * WellFormedCount(file.lines)

=============================================================================
